---- MODULE Spec2Model ----
(***************************************************************************)
(* The Rib worker-invocation production                                    *)
(*     worker_function_invoke := identifier '.' rib_expr                   *)
(* of golem-rib (parser/worker_function_invoke.rs), together with the      *)
(* DefaultNamespace text representation of golem-service-base (auth.rs).   *)
(*                                                                         *)
(* The input is a sequence of tokens; a position is a 1-based index into   *)
(* it (Len(input) + 1 is end of input).  A parser is an operator from an   *)
(* input and a start position to a parse result, as in the combinator      *)
(* library the source is written with: a result is a success or a failure, *)
(* and is "committed" when input was consumed before it was produced.      *)
(***************************************************************************)
EXTENDS Integers, Sequences, FiniteSets, TLC

VARIABLES case, input, ast, expr, prod, nsText, nsParsed, nsShown

vars == <<case, input, ast, expr, prod, nsText, nsParsed, nsShown>>

parserVars == <<case, input, ast, expr, prod>>

nsVars == <<nsText, nsParsed, nsShown>>

(***************************************************************************)
(* Bounds of the model.                                                    *)
(***************************************************************************)
MaxArgs == 3

MaxRawLen == 3

NsMaxLen == 2

(***************************************************************************)
(* Option values.                                                          *)
(***************************************************************************)
None == <<>>

Some(x) == <<x>>

(***************************************************************************)
(* Tokens.                                                                 *)
(***************************************************************************)
LitTok == "\"my-worker\""

Idents == {"worker", "function-name", "instance", "foo", "bar", "baz"}

Tok(in, p) == IF p >= 1 /\ p <= Len(in) THEN in[p] ELSE "<eof>"

(***************************************************************************)
(* Expr: every node is a record of the same shape; a field a variant does  *)
(* not have holds its empty value.  args are a Call's or an invocation's   *)
(* arguments, exprs a Block's statements or a LetBinding's bound           *)
(* expression.                                                             *)
(***************************************************************************)
DefaultSpan == <<0, 0>>

Node(kind) ==
    [kind |-> kind, name |-> "", scope |-> "", call_type |-> None,
     generic_type_parameter |-> None, args |-> <<>>, worker_expr |-> None,
     exprs |-> <<>>, source_span |-> DefaultSpan]

with_source_span(e, span) == [e EXCEPT !.source_span = span]

Expr_identifier_global(name) ==
    [Node("Identifier") EXCEPT !.name = name, !.scope = "Global"]

Expr_literal(value) == [Node("Literal") EXCEPT !.name = value]

\* DynamicParsedFunctionName::parse(name): the parsed form of a function name
DynamicParsedFunctionName_parse(name) == [site |-> None, function |-> name]

\* DynamicParsedFunctionName's to_string(): the text of a parsed function name
function_name_to_string(function_name) == function_name.function

Expr_call_worker_function(function_name, gtp, args) ==
    [Node("Call") EXCEPT
        !.call_type = Some([tag |-> "Function", function_name |-> function_name]),
        !.generic_type_parameter = gtp,
        !.args = args]

Expr_let_binding(name, e) == [Node("LetBinding") EXCEPT !.name = name, !.exprs = <<e>>]

Expr_expr_block(es) == [Node("Block") EXCEPT !.exprs = es]

Expr_invoke_worker_function(worker_expr, function_name, gtp, args) ==
    [Node("InvokeWorkerFunction") EXCEPT
        !.worker_expr = Some(worker_expr),
        !.name = function_name,
        !.generic_type_parameter = gtp,
        !.args = args]

(***************************************************************************)
(* Parse results.  expr holds the values parsed (one Expr for an           *)
(* expression parser), pos the stream position the parser left, committed  *)
(* whether it consumed input, msgs the messages of the error.  diverged    *)
(* marks a parse that ran out of recursion depth.                          *)
(***************************************************************************)
POk(es, pos, committed) ==
    [ok |-> TRUE, expr |-> es, pos |-> pos, committed |-> committed,
     msgs |-> {}, diverged |-> FALSE]

PErr(pos, committed, msgs) ==
    [ok |-> FALSE, expr |-> <<>>, pos |-> pos, committed |-> committed,
     msgs |-> msgs, diverged |-> FALSE]

PDiverged(pos) ==
    [ok |-> FALSE, expr |-> <<>>, pos |-> pos, committed |-> TRUE,
     msgs |-> {"recursion limit"}, diverged |-> TRUE]

\* the recursion depth a parse of the input is given
Fuel(in) == Len(in) + 1

(***************************************************************************)
(* Lexical atoms.                                                          *)
(***************************************************************************)
RECURSIVE spaces(_, _)
spaces(in, p) == IF Tok(in, p) = " " THEN spaces(in, p + 1) ELSE p

identifier(in, start) ==
    IF Tok(in, start) \in Idents
    THEN POk(<<with_source_span(Expr_identifier_global(Tok(in, start)),
                                <<start, start + 1>>)>>, start + 1, TRUE)
    ELSE PErr(start, FALSE, {"expected identifier"})

literal(in, start) ==
    IF Tok(in, start) = LitTok
    THEN POk(<<with_source_span(Expr_literal("my-worker"), <<start, start + 1>>)>>,
             start + 1, TRUE)
    ELSE PErr(start, FALSE, {"expected literal"})

\* '[' type-param-text ']', optional
generic_type_parameter(in, p) ==
    IF Tok(in, p) # "[" THEN POk(None, p, FALSE)
    ELSE IF Tok(in, p + 1) \in Idents /\ Tok(in, p + 2) = "]"
         THEN POk(Some([value |-> Tok(in, p + 1)]), p + 3, TRUE)
         ELSE PErr(p + 1, TRUE, {"expected type parameter"})

(***************************************************************************)
(* Backtracking.  attempt(p) turns a committed failure into an uncommitted *)
(* one and resets the stream to where p started.  An alternation returns   *)
(* its first alternative unless that failed uncommitted; the next          *)
(* alternative then starts where the alternation started.                  *)
(***************************************************************************)
\* attempt left out: the failure stays committed
attempt_missing(r, start) == r

attempt(r, start) ==
    IF r.ok \/ r.diverged THEN r
    ELSE [r EXCEPT !.committed = FALSE, !.pos = start]

choice(a, b) ==
    IF a.ok \/ a.committed THEN a
    ELSE IF b.ok \/ b.committed THEN b
    ELSE PErr(a.pos, FALSE, a.msgs \cup b.msgs)

\* a failure after input was consumed is a committed failure
committed_failure(r) == [r EXCEPT !.committed = TRUE]

(***************************************************************************)
(* worker_function_invoke, and the expression grammar it recurses into.    *)
(***************************************************************************)
RECURSIVE rib_expr(_, _, _)
RECURSIVE call_args(_, _, _, _)

\* the right-hand side is entered where the production started
rhs_position_no_consume(in, start) ==
    IF identifier(in, start).ok /\ Tok(in, spaces(in, start + 1)) = "." THEN start ELSE 0

\* the position after identifier, spaces and '.', where rib_expr is entered;
\* 0 when the identifier or the '.' is missing
rhs_position(in, start) ==
    IF ~identifier(in, start).ok THEN 0
    ELSE IF Tok(in, spaces(in, start + 1)) = "." THEN spaces(in, start + 1) + 1
    ELSE 0

\* the tuple's result once both the worker variable and the call are parsed
tuple_pair(id, rhs) ==
    IF ~rhs.ok THEN committed_failure(rhs)
    ELSE POk(<<id.expr[1], rhs.expr[1]>>, rhs.pos, TRUE)

tuple_rest(in, d, id, p) ==
    IF ~id.ok THEN id
    ELSE IF p = 0 THEN PErr(spaces(in, id.pos), TRUE, {"unexpected token"})
    ELSE tuple_pair(id, rib_expr(in, p, d))

\* (identifier().skip(spaces()), char('.'), rib_expr())
tuple_parser(in, start, d) ==
    tuple_rest(in, d, identifier(in, start), rhs_position(in, start))

\* the rewrite with the node's parts given
rewrite_as(call, worker_expr, gtp, args, node_span) ==
    IF call.kind = "Call" /\ call.call_type # None /\ call.call_type[1].tag = "Function"
    THEN [ok |-> TRUE,
          expr |-> <<with_source_span(
                       Expr_invoke_worker_function(
                           worker_expr,
                           function_name_to_string(call.call_type[1].function_name),
                           gtp, args),
                       node_span)>>,
          msg |-> ""]
    ELSE [ok |-> FALSE, expr |-> <<>>, msg |-> "Invalid function call"]

\* the arguments in reverse order
rewrite_args_reversed(worker_variable, call) ==
    rewrite_as(call, with_source_span(worker_variable, call.source_span),
               call.generic_type_parameter,
               [i \in 1..Len(call.args) |-> call.args[Len(call.args) + 1 - i]],
               call.source_span)

\* an invocation on the right-hand side taken for a call
rewrite_accepts_invocation(worker_variable, call) ==
    IF call.kind = "InvokeWorkerFunction"
    THEN [ok |-> TRUE,
          expr |-> <<with_source_span(
                       Expr_invoke_worker_function(
                           with_source_span(worker_variable, call.source_span),
                           call.name, call.generic_type_parameter, call.args),
                       call.source_span)>>,
          msg |-> ""]
    ELSE rewrite_as(call, with_source_span(worker_variable, call.source_span),
                    call.generic_type_parameter, call.args, call.source_span)

\* the worker variable keeps the span it was parsed with
rewrite_keeps_worker_span(worker_variable, call) ==
    rewrite_as(call, worker_variable, call.generic_type_parameter, call.args,
               call.source_span)

\* the generic type parameter of the call is dropped
rewrite_drops_type_parameter(worker_variable, call) ==
    rewrite_as(call, with_source_span(worker_variable, call.source_span), None,
               call.args, call.source_span)

\* the call, not the worker variable, becomes the worker_expr
rewrite_worker_is_call(worker_variable, call) ==
    rewrite_as(call, with_source_span(call, call.source_span),
               call.generic_type_parameter, call.args, call.source_span)

\* the new node is left with its default span
rewrite_no_node_span(worker_variable, call) ==
    rewrite_as(call, with_source_span(worker_variable, call.source_span),
               call.generic_type_parameter, call.args, DefaultSpan)

\* the closure given to and_then: the match on the parsed right-hand side
rewrite(worker_variable, call) ==
    IF call.kind = "Call" /\ call.call_type # None /\ call.call_type[1].tag = "Function"
    THEN LET function_name == function_name_to_string(call.call_type[1].function_name)
             source_span == call.source_span
             worker_variable_with_source_span ==
                 with_source_span(worker_variable, source_span)
         IN  [ok |-> TRUE,
              expr |-> <<with_source_span(
                           Expr_invoke_worker_function(
                               worker_variable_with_source_span,
                               function_name,
                               call.generic_type_parameter,
                               call.args),
                           source_span)>>,
              msg |-> ""]
    ELSE [ok |-> FALSE, expr |-> <<>>, msg |-> "Invalid function call"]

and_then_result(r, o) ==
    IF o.ok THEN POk(o.expr, r.pos, r.committed)
    ELSE PErr(r.pos, r.committed, {o.msg})

\* .and_then(closure): a failure of the closure is a failure of the parser
and_then(r) ==
    IF ~r.ok THEN r ELSE and_then_result(r, rewrite(r.expr[1], r.expr[2]))

\* the message is not added
message_dropped(r, msg) == r

\* .message(msg): the message is added to the error of a failing parser (at
\* once when it is committed, when the error is reported otherwise)
message(r, msg) == IF r.ok THEN r ELSE [r EXCEPT !.msgs = @ \cup {msg}]

worker_function_invoke(in, start, d) ==
    message(and_then(tuple_parser(in, start, d)), "Invalid function call")

call_finish(in, start, tp, as) ==
    IF ~as.ok THEN as
    ELSE POk(<<with_source_span(
                 Expr_call_worker_function(
                     DynamicParsedFunctionName_parse(Tok(in, start)), tp.expr, as.expr),
                 <<start, as.pos>>)>>, as.pos, TRUE)

call_after_name(in, start, d, tp) ==
    IF ~tp.ok THEN tp
    ELSE IF Tok(in, tp.pos) # "(" THEN PErr(tp.pos, TRUE, {"expected ("})
    ELSE call_finish(in, start, tp, call_args(in, tp.pos + 1, d, <<>>))

\* <name>[<generic-type-param>]?(<arg>,...)
call(in, start, d) ==
    IF Tok(in, start) \notin Idents THEN PErr(start, FALSE, {"expected function name"})
    ELSE call_after_name(in, start, d, generic_type_parameter(in, start + 1))

call_args_sep(in, d, acc, r) ==
    IF Tok(in, r) = "," THEN call_args(in, r + 1, d, acc)
    ELSE IF Tok(in, r) = ")" THEN POk(acc, r + 1, TRUE)
    ELSE PErr(r, TRUE, {"expected , or )"})

call_args_next(in, d, acc, a) ==
    IF ~a.ok THEN committed_failure(a)
    ELSE call_args_sep(in, d, Append(acc, a.expr[1]), spaces(in, a.pos))

call_args_at(in, q, d, acc) ==
    IF Tok(in, q) = ")" /\ acc = <<>> THEN POk(acc, q + 1, TRUE)
    ELSE call_args_next(in, d, acc, rib_expr(in, q, d))

\* the arguments after '(' up to and including ')'
call_args(in, p, d, acc) == call_args_at(in, spaces(in, p), d, acc)

let_binding_finish(start, id, e) ==
    IF ~e.ok THEN committed_failure(e)
    ELSE POk(<<with_source_span(Expr_let_binding(id.expr[1].name, e.expr[1]),
                                <<start, e.pos>>)>>, e.pos, TRUE)

let_binding_after_name(in, start, d, id, p) ==
    IF Tok(in, p) # "=" THEN PErr(p, TRUE, {"expected ="})
    ELSE let_binding_finish(start, id, rib_expr(in, p + 1, d))

let_binding_name(in, start, d, id) ==
    IF ~id.ok THEN committed_failure(id)
    ELSE let_binding_after_name(in, start, d, id, spaces(in, id.pos))

\* let <name> = <expr>
let_binding(in, start, d) ==
    IF Tok(in, start) # "let" THEN PErr(start, FALSE, {"expected let"})
    ELSE let_binding_name(in, start, d, identifier(in, spaces(in, start + 1)))

\* the alternatives of rib_expr tried after worker_function_invoke
other_alternatives(in, p, d) == choice(attempt(call(in, p, d), p), identifier(in, p))

\* the alternatives of rib_expr, in order
rib_expr_at(in, p, d) ==
    choice(let_binding(in, p, d),
           choice(literal(in, p),
                  choice(attempt(worker_function_invoke(in, p, d), p),
                         other_alternatives(in, p, d))))

rib_expr(in, start, d) ==
    IF d = 0 THEN PDiverged(start) ELSE rib_expr_at(in, spaces(in, start), d - 1)

RECURSIVE statements(_, _, _)

statements_sep(in, acc, q) ==
    IF Tok(in, q) = ";" THEN statements(in, q + 1, acc)
    ELSE IF q = Len(in) + 1 THEN POk(acc, q, TRUE)
    ELSE PErr(q, TRUE, {"expected end of input"})

statements_next(in, acc, e) ==
    IF ~e.ok THEN e
    ELSE statements_sep(in, Append(acc, e.expr[1]), spaces(in, e.pos))

\* statements separated by ';' up to the end of the input
statements(in, p, acc) == statements_next(in, acc, rib_expr(in, p, Fuel(in)))

from_text_result(in, r) ==
    IF ~r.ok THEN r
    ELSE IF Len(r.expr) = 1 THEN r
    ELSE POk(<<with_source_span(Expr_expr_block(r.expr), <<spaces(in, 1), r.pos>>)>>,
             r.pos, TRUE)

\* Expr::from_text: a single statement is returned unwrapped
Expr_from_text(in) == from_text_result(in, statements(in, 1, <<>>))

(***************************************************************************)
(* DefaultNamespace (auth.rs).  A string is a sequence of characters.      *)
(***************************************************************************)
DefaultNamespace == [tag |-> "DefaultNamespace"]

\* Display: write!(f, "default")
Display_fmt(ns) == <<"d", "e", "f", "a", "u", "l", "t">>

\* the text is only required to start with "default"
try_from_prefix(value) ==
    IF Len(value) >= 7 /\ SubSeq(value, 1, 7) = <<"d", "e", "f", "a", "u", "l", "t">>
    THEN [ok |-> TRUE, value |-> Some(DefaultNamespace), err |-> ""]
    ELSE [ok |-> FALSE, value |-> None, err |-> "Failed to parse empty namespace"]

\* TryFrom<String>
try_from(value) ==
    IF value = <<"d", "e", "f", "a", "u", "l", "t">>
    THEN [ok |-> TRUE, value |-> Some(DefaultNamespace), err |-> ""]
    ELSE [ok |-> FALSE, value |-> None, err |-> "Failed to parse empty namespace"]

(***************************************************************************)
(* The inputs: the programs of the tests with the worker, the function     *)
(* name, the type parameters and the arguments varied, invocations whose   *)
(* right-hand side is no function call, and every short token sequence.    *)
(***************************************************************************)
ArgAtoms == {"foo", "lit", "call", "invoke"}

ArgToks(a) ==
    CASE a = "foo" -> <<"foo">>
      [] a = "lit" -> <<LitTok>>
      [] a = "call" -> <<"bar", "(", "foo", ")">>
      [] a = "invoke" -> <<"worker", ".", "foo", "(", ")">>

ArgExpr(a) ==
    CASE a = "foo" -> Expr_identifier_global("foo")
      [] a = "lit" -> Expr_literal("my-worker")
      [] a = "call" ->
            Expr_call_worker_function(DynamicParsedFunctionName_parse("bar"), None,
                                      <<Expr_identifier_global("foo")>>)
      [] a = "invoke" ->
            Expr_invoke_worker_function(Expr_identifier_global("worker"), "foo",
                                        None, <<>>)

RECURSIVE JoinArgs(_)
JoinArgs(args) ==
    IF args = <<>> THEN <<>>
    ELSE IF Len(args) = 1 THEN ArgToks(args[1])
    ELSE ArgToks(args[1]) \o <<",", " ">> \o JoinArgs(Tail(args))

TypeParamToks(t) == IF t = None THEN <<>> ELSE <<"[", t[1], "]">>

TypeParam(t) == IF t = None THEN None ELSE Some([value |-> t[1]])

Gap(sp) == IF sp THEN <<" ">> ELSE <<>>

BadRhsToks(rhs) ==
    CASE rhs = "literal" -> <<LitTok>>
      [] rhs = "identifier" -> <<"foo">>
      [] rhs = "invocation" -> <<"foo", ".", "bar", "(", ")">>

Render(c) ==
    CASE c.kind = "invoke" ->
            <<c.w>> \o Gap(c.sp) \o <<".", c.f>> \o TypeParamToks(c.t)
                \o <<"(">> \o JoinArgs(c.args) \o <<")">>
      [] c.kind = "badrhs" -> <<c.w>> \o Gap(c.sp) \o <<".">> \o BadRhsToks(c.rhs)
      [] c.kind = "program" ->
            <<" ", "let", " ", "worker", " ", "=", " ", "instance">>
                \o TypeParamToks(c.t1) \o <<"(", LitTok, ")", ";", " ">>
                \o <<"worker", ".", "function-name">> \o TypeParamToks(c.t)
                \o <<"(", "foo", ",", " ", "bar", ",", " ", "baz", ")", " ">>
      [] c.kind = "raw" -> c.raw

SeqsUpTo(S, n) == UNION {[1..k -> S] : k \in 0..n}

Case(kind) ==
    [kind |-> kind, w |-> "", f |-> "", t |-> None, t1 |-> None, args |-> <<>>,
     sp |-> FALSE, rhs |-> "", raw |-> <<>>]

TypeParams == {None, Some("foo"), Some("bar")}

InvokeCases ==
    {[Case("invoke") EXCEPT !.w = w, !.f = f, !.t = t, !.args = as, !.sp = sp] :
        w \in {"worker", "foo"}, f \in {"function-name", "foo"},
        t \in {None, Some("foo")}, as \in SeqsUpTo(ArgAtoms, MaxArgs), sp \in BOOLEAN}

BadRhsCases ==
    {[Case("badrhs") EXCEPT !.w = w, !.rhs = rhs, !.sp = sp] :
        w \in {"worker", "foo"}, rhs \in {"literal", "identifier", "invocation"},
        sp \in BOOLEAN}

ProgramCases ==
    {[Case("program") EXCEPT !.t1 = t1, !.t = t2] : t1 \in TypeParams, t2 \in TypeParams}

RawTokens == {"worker", "foo", ".", "(", ")", ",", "[", "]", LitTok, " "}

RawCases == {[Case("raw") EXCEPT !.raw = r] : r \in SeqsUpTo(RawTokens, MaxRawLen)}

Cases == InvokeCases \cup BadRhsCases \cup ProgramCases \cup RawCases

NsChars == {"d", "e", "f", "a", "u", "l", "t", "D", " "}

NsEdits(s) ==
    {[s EXCEPT ![i] = c] : i \in DOMAIN s, c \in NsChars}
    \cup {SubSeq(s, 1, i - 1) \o SubSeq(s, i + 1, Len(s)) : i \in DOMAIN s}
    \cup {SubSeq(s, 1, i) \o <<c>> \o SubSeq(s, i + 1, Len(s)) :
            i \in 0..Len(s), c \in NsChars}

NsInputs == SeqsUpTo(NsChars, NsMaxLen) \cup NsEdits(Display_fmt(DefaultNamespace))

(***************************************************************************)
(* The parser as a state machine: an input is chosen, and the entry point, *)
(* the expression parser and the production are each run on it once.       *)
(***************************************************************************)
\* where the production starts: rib_expr skips leading spaces
Start == spaces(input, 1)

Init ==
    /\ case \in Cases
    /\ input = Render(case)
    /\ ast = None
    /\ expr = None
    /\ prod = None
    /\ nsText = <<>>
    /\ nsParsed = None
    /\ nsShown = None

FromText ==
    /\ ast = None
    /\ ast' = Some(Expr_from_text(input))
    /\ UNCHANGED <<case, input, expr, prod, nsVars>>

ParseRibExpr ==
    /\ expr = None
    /\ expr' = Some(rib_expr(input, 1, Fuel(input)))
    /\ UNCHANGED <<case, input, ast, prod, nsVars>>

ParseWorkerFunctionInvoke ==
    /\ prod = None
    /\ prod' = Some(worker_function_invoke(input, Start, Fuel(input)))
    /\ UNCHANGED <<case, input, ast, expr, nsVars>>

Next == FromText \/ ParseRibExpr \/ ParseWorkerFunctionInvoke

Spec == Init /\ [][Next]_vars

(***************************************************************************)
(* DefaultNamespace as a state machine: a string is chosen and parsed, and *)
(* the namespace is displayed.                                             *)
(***************************************************************************)
InitNs ==
    /\ case = Case("raw")
    /\ input = <<>>
    /\ ast = None
    /\ expr = None
    /\ prod = None
    /\ nsText \in NsInputs
    /\ nsParsed = None
    /\ nsShown = None

TryFrom ==
    /\ nsParsed = None
    /\ nsParsed' = Some(try_from(nsText))
    /\ UNCHANGED <<parserVars, nsText, nsShown>>

Display ==
    /\ nsShown = None
    /\ nsShown' = Some(Display_fmt(DefaultNamespace))
    /\ UNCHANGED <<parserVars, nsText, nsParsed>>

NextNs == TryFrom \/ Display

SpecNs == InitNs /\ [][NextNs]_vars

(***************************************************************************)
(* What the claims speak of.                                               *)
(***************************************************************************)
DefaultString == <<"d", "e", "f", "a", "u", "l", "t">>

RECURSIVE StripSpan(_)
\* an Expr with every source span reset: equality of ASTs ignores spans
StripSpan(e) ==
    [e EXCEPT !.source_span = DefaultSpan,
              !.args = [i \in DOMAIN e.args |-> StripSpan(e.args[i])],
              !.worker_expr = [i \in DOMAIN e.worker_expr |-> StripSpan(e.worker_expr[i])],
              !.exprs = [i \in DOMAIN e.exprs |-> StripSpan(e.exprs[i])]]

RECURSIVE Nodes(_)
\* the nodes of an AST
Nodes(e) ==
    {e} \cup UNION {Nodes(e.args[i]) : i \in DOMAIN e.args}
        \cup UNION {Nodes(e.worker_expr[i]) : i \in DOMAIN e.worker_expr}
        \cup UNION {Nodes(e.exprs[i]) : i \in DOMAIN e.exprs}

ResultNodes(r) == IF r # None /\ r[1].ok THEN UNION {Nodes(r[1].expr[i]) : i \in DOMAIN r[1].expr} ELSE {}

\* every InvokeWorkerFunction node the parser has produced
Invocations ==
    {n \in ResultNodes(ast) \cup ResultNodes(expr) \cup ResultNodes(prod) :
        n.kind = "InvokeWorkerFunction"}

\* what rib_expr makes of the text to the right of the production's '.'
RhsResult == rib_expr(input, rhs_position(input, Start), Fuel(input))

IsFunctionCall(e) ==
    e.kind = "Call" /\ e.call_type # None /\ e.call_type[1].tag = "Function"

\* the text has "q . s" with q an identifier and only spaces around the '.'
InvocationAt(q, s) ==
    /\ Tok(input, q) \in Idents
    /\ \E dot \in (q + 1)..(s - 1) :
          /\ Tok(input, dot) = "."
          /\ \A i \in ((q + 1)..(s - 1)) \ {dot} : Tok(input, i) = " "

ArgExprs(args) == [i \in 1..Len(args) |-> ArgExpr(args[i])]

(***************************************************************************)
(* C1: parsing "w.f(a1,...,an)" succeeds and yields                        *)
(* InvokeWorkerFunction(Identifier(w), f, None, [a1,...,an]) with the      *)
(* arguments in source order, "w.f[t](a1,...,an)" the same node with       *)
(* generic_type_parameter = Some(t); the single statement is not wrapped   *)
(* in a Block.                                                             *)
(***************************************************************************)
C1_InvocationParses ==
    (case.kind = "invoke" /\ ast # None) =>
        /\ ast[1].ok
        /\ Len(ast[1].expr) = 1
        /\ ast[1].expr[1].kind # "Block"
        /\ StripSpan(ast[1].expr[1]) =
              Expr_invoke_worker_function(Expr_identifier_global(case.w), case.f,
                                          TypeParam(case.t), ArgExprs(case.args))

C1_Witness ==
    /\ case.kind = "invoke"
    /\ Len(case.args) >= 2
    /\ case.args[1] # case.args[2]
    /\ case.t # None
    /\ ast # None
    /\ ast[1].ok

(***************************************************************************)
(* C2: when the right-hand side of "w.<rhs>" parses as an expression that  *)
(* is not a Call with call_type Function, the production yields no         *)
(* InvokeWorkerFunction node: it fails with "Invalid function call".       *)
(***************************************************************************)
NonCallRhs ==
    /\ rhs_position(input, Start) # 0
    /\ RhsResult.ok
    /\ ~IsFunctionCall(RhsResult.expr[1])

C2_NonCallRejected ==
    (prod # None /\ NonCallRhs) =>
        /\ ~prod[1].ok
        /\ prod[1].expr = <<>>
        /\ "Invalid function call" \in prod[1].msgs

C2_Witness ==
    /\ prod # None
    /\ NonCallRhs
    /\ RhsResult.expr[1].kind = "InvokeWorkerFunction"
    /\ ~prod[1].ok

(***************************************************************************)
(* C3 as stated: the worker_expr of every parsed InvokeWorkerFunction has  *)
(* a span that starts at the first character of w and ends at the closing  *)
(* parenthesis of "w.f(...)".                                              *)
(***************************************************************************)
C3_SpanStartsAtWorker ==
    \A n \in Invocations :
        LET sp == n.worker_expr[1].source_span
        IN  /\ Tok(input, sp[1]) = n.worker_expr[1].name
            /\ Tok(input, sp[2] - 1) = ")"
            /\ \E s \in (sp[1] + 1)..(sp[2] - 1) :
                  InvocationAt(sp[1], s) /\ Tok(input, s) = n.name

(***************************************************************************)
(* C3 as amended: the worker_expr of every parsed InvokeWorkerFunction has *)
(* the span of the call parsed to the right of the '.': it starts at the   *)
(* first character of the function name f, after w and the '.', and ends   *)
(* at the closing parenthesis.                                             *)
(***************************************************************************)
C3_SpanIsCallSpan ==
    \A n \in Invocations :
        LET sp == n.worker_expr[1].source_span
        IN  /\ Tok(input, sp[1]) = n.name
            /\ Tok(input, sp[2] - 1) = ")"
            /\ \E q \in 1..(sp[1] - 1) :
                  InvocationAt(q, sp[1]) /\ Tok(input, q) = n.worker_expr[1].name

C3_Witness ==
    /\ prod # None
    /\ prod[1].ok
    /\ case.sp
    /\ prod[1].expr[1].worker_expr[1].source_span = <<Start + 3, Len(input) + 1>>

(***************************************************************************)
(* C4: the program "let worker = instance[t1]?("my-worker");               *)
(* worker.function-name[t2]?(foo, bar, baz)" parses to a Block of exactly  *)
(* the let binding and the invocation in source order, each type parameter *)
(* on its own node, for every choice of present or absent t1 and t2.       *)
(***************************************************************************)
ExpectedProgram(t1, t2) ==
    Expr_expr_block(<<
        Expr_let_binding("worker",
            Expr_call_worker_function(DynamicParsedFunctionName_parse("instance"),
                                      TypeParam(t1), <<Expr_literal("my-worker")>>)),
        Expr_invoke_worker_function(
            Expr_identifier_global("worker"), "function-name", TypeParam(t2),
            <<Expr_identifier_global("foo"), Expr_identifier_global("bar"),
              Expr_identifier_global("baz")>>)>>)

C4_ProgramParses ==
    (case.kind = "program" /\ ast # None) =>
        /\ ast[1].ok
        /\ Len(ast[1].expr) = 1
        /\ Len(ast[1].expr[1].exprs) = 2
        /\ StripSpan(ast[1].expr[1]) = ExpectedProgram(case.t1, case.t)

C4_Witness ==
    /\ case.kind = "program"
    /\ case.t1 = Some("foo")
    /\ case.t = Some("bar")
    /\ ast # None
    /\ ast[1].ok

(***************************************************************************)
(* C5: the Display output of DefaultNamespace is exactly "default";        *)
(* try_from(s) is Ok(DefaultNamespace) if and only if s is "default", so   *)
(* the displayed text parses back to the namespace; every other string     *)
(* gives Err("Failed to parse empty namespace").                           *)
(***************************************************************************)
C5_NamespaceRoundTrip ==
    /\ nsShown # None =>
          /\ nsShown[1] = DefaultString
          /\ try_from(nsShown[1]).ok
          /\ try_from(nsShown[1]).value = Some(DefaultNamespace)
    /\ nsParsed # None =>
          /\ nsParsed[1].ok <=> nsText = DefaultString
          /\ nsParsed[1].ok => nsParsed[1].value = Some(DefaultNamespace)
          /\ ~nsParsed[1].ok =>
                /\ nsParsed[1].value = None
                /\ nsParsed[1].err = "Failed to parse empty namespace"

C5_Witness ==
    /\ nsShown # None
    /\ nsParsed # None
    /\ nsParsed[1].ok
    /\ nsText = nsShown[1]

(***************************************************************************)
(* C6: whenever the production fails (no identifier, no '.', a right-hand  *)
(* side that does not parse, or one that is no function call) its error    *)
(* carries the message "Invalid function call".                            *)
(***************************************************************************)
C6_FailureCarriesMessage ==
    (prod # None /\ ~prod[1].ok) => "Invalid function call" \in prod[1].msgs

C6_Witness ==
    /\ prod # None
    /\ ~prod[1].ok
    /\ rhs_position(input, Start) # 0
    /\ ~RhsResult.ok
    /\ prod[1].msgs # {"Invalid function call"}

(***************************************************************************)
(* C7: the worker_expr of every InvokeWorkerFunction node of a parsed AST  *)
(* is an Identifier, never an InvokeWorkerFunction or a Call.              *)
(***************************************************************************)
C7_WorkerIsIdentifier ==
    \A n \in Invocations :
        /\ n.worker_expr # None
        /\ n.worker_expr[1].kind = "Identifier"

C7_Witness ==
    /\ ast # None
    /\ ast[1].ok
    /\ Cardinality({n \in ResultNodes(ast) : n.kind = "InvokeWorkerFunction"}) >= 2

(***************************************************************************)
(* C8: the production enters rib_expr only after the identifier and the    *)
(* '.', at a strictly later position than it started at, and every parse   *)
(* ends, within a recursion depth bounded by the input's length, in a      *)
(* completed AST or in a failure.                                          *)
(***************************************************************************)
Ended(r) ==
    r # None =>
        /\ ~r[1].diverged
        /\ r[1].ok => Len(r[1].expr) = 1
        /\ ~r[1].ok => r[1].expr = <<>> /\ r[1].msgs # {}

C8_Terminates ==
    /\ \A p \in 1..Len(input) :
          rhs_position(input, p) # 0 => rhs_position(input, p) >= p + 2
    /\ Ended(ast)
    /\ Ended(expr)
    /\ Ended(prod)

C8_Witness ==
    /\ case.kind = "invoke"
    /\ \E i \in DOMAIN case.args : case.args[i] = "invoke"
    /\ ast # None /\ ast[1].ok
    /\ prod # None /\ prod[1].ok
    /\ expr # None /\ expr[1].ok

(***************************************************************************)
(* C9: when the production fails after it consumed input, nothing of it    *)
(* remains: the enclosing alternation goes on to its other alternatives,   *)
(* which start at the position the production started at.                  *)
(***************************************************************************)
C9_FailureBacktracks ==
    (prod # None /\ expr # None /\ ~prod[1].ok /\ prod[1].committed) =>
        /\ prod[1].expr = <<>>
        /\ expr[1] = other_alternatives(input, Start, Fuel(input) - 1)
        /\ expr[1].ok => expr[1].expr[1].source_span[1] = Start

C9_Witness ==
    /\ prod # None
    /\ expr # None
    /\ ~prod[1].ok
    /\ prod[1].committed
    /\ prod[1].pos > Start
    /\ expr[1].ok
    /\ expr[1].expr[1].kind = "Call"

(***************************************************************************)
(* C10: on a successful rewrite the span of the Call parsed to the right   *)
(* of the '.' is the span of the new node and of its worker_expr; the      *)
(* function name, the type parameter and the arguments of the Call are     *)
(* carried over unchanged, and the worker identifier is otherwise as       *)
(* parsed.                                                                 *)
(***************************************************************************)
C10_RewriteFrame ==
    (prod # None /\ prod[1].ok) =>
        LET n == prod[1].expr[1]
            c == RhsResult.expr[1]
            w == identifier(input, Start).expr[1]
        IN  /\ n.kind = "InvokeWorkerFunction"
            /\ IsFunctionCall(c)
            /\ n.source_span = c.source_span
            /\ n.worker_expr[1].source_span = c.source_span
            /\ n.name = c.call_type[1].function_name.function
            /\ n.name = Tok(input, c.source_span[1])
            /\ n.generic_type_parameter = c.generic_type_parameter
            /\ n.args = c.args
            /\ n.worker_expr[1].name = w.name
            /\ n.worker_expr[1].scope = w.scope
            /\ n.worker_expr[1] = [w EXCEPT !.source_span = c.source_span]
            /\ n.call_type = None /\ n.exprs = <<>> /\ n.scope = ""

C10_Witness ==
    /\ prod # None
    /\ prod[1].ok
    /\ Len(prod[1].expr[1].args) >= 2
    /\ prod[1].expr[1].args[1] # prod[1].expr[1].args[2]
    /\ prod[1].expr[1].generic_type_parameter # None

====
